---- MODULE Spec2Model ----
(***************************************************************************)
(* A model of tools/batools/appmodule.py: generate_app_module, which       *)
(* rewrites four marker-delimited sections of babase/_app.py, and          *)
(* _add_init, the depth-first traversal that orders the creation of the    *)
(* feature sets' app subsystems.                                           *)
(*                                                                         *)
(* Feature-set names are modelled as the naturals 1..MaxNames: the number  *)
(* of a name is its rank in Python's string order, so sorted() is          *)
(* ascending numeric order.                                                *)
(***************************************************************************)
EXTENDS Integers, Sequences, FiniteSets, TLC

VARIABLES
    allsets,      \* keys of all_ss_fsets (feature sets with an app subsystem)
    deps,         \* name -> python_app_subsystem_dependencies of that set
    init_order,   \* the shared init_order list
    stack,        \* active _add_init calls, outermost first
    pending,      \* keys the loop of generate_app_module has yet to visit
    status,       \* "running", "returned", "cycle_error" or "assert_error"
    errname,      \* the feature set the RuntimeError names (0: none raised)
    mode,         \* "resolve", "generate" (generate_app_module) or "rewrite"
    fsets,        \* feature_sets: name -> FeatureSet
    existing_data,\* the document generate_app_module is given
    out,          \* the document being rewritten
    first_out,    \* what the first run (or the first rewrite) returned
    run,          \* 1: first generation run, 2: the run on its own output
    step,         \* how many replace_section calls have returned
    gstatus,      \* "running", "returned" or the error raised
    call          \* the arguments of a bare replace_section call

rvars == <<allsets, deps, init_order, stack, pending, status, errname>>

dvars == <<mode, fsets, existing_data, out, first_out, run, step, gstatus, call>>

vars == <<rvars, dvars>>

----------------------------------------------------------------------------
(* Bounds of the model. *)

\* Every mapping over this many names is explored.
NumNames == 3

\* Straight dependency chains (with and without a closing edge) up to this long.
ChainLen == 12

\* The maximum recursion depth _add_init accepts.
MaxDepth == 10

NoCall == [sec |-> 0, content |-> <<>>, keep |-> TRUE]

Max(a, b) == IF a >= b THEN a ELSE b

Names == 1..Max(NumNames, ChainLen)

----------------------------------------------------------------------------
(* Helpers: Python's sorted(), "in" on a list, dict.get. *)

SetMin(S) == CHOOSE x \in S : \A y \in S : x <= y

RECURSIVE SortedSeq(_)
SortedSeq(S) == IF S = {} THEN <<>>
                ELSE <<SetMin(S)>> \o SortedSeq(S \ {SetMin(S)})

Range(s) == {s[i] : i \in 1..Len(s)}

\* sorted(all_ss_fsets.items()): the order of the loop that calls _add_init.
ReverseOuterOrder(sets) ==
    LET s == SortedSeq(sets) IN [i \in 1..Len(s) |-> s[Len(s) + 1 - i]]

OuterOrder(sets) == SortedSeq(sets)

\* sorted(fset.python_app_subsystem_dependencies)
SortedDeps(name, d) == SortedSeq(d[name])

\* depth > 10
DepthExceededLate(depth) == depth > MaxDepth + 1

DepthExceeded(depth) == depth > MaxDepth

\* fset.name in init_order
NeverAlreadyAdded(name, order) == FALSE

AlreadyAdded(name, order) == name \in Range(order)

\* allsets.get(depname) is not None
DepAlwaysPresent(depname, sets) == TRUE

DepNeverPresent(depname, sets) == FALSE

DepPresent(depname, sets) == depname \in sets

\* init_order.append(fset.name)
PrependName(order, name) == <<name>> \o order

AppendName(order, name) == Append(order, name)

----------------------------------------------------------------------------
(* The traversal, one step at a time.  A frame of the stack is one call of *)
(* _add_init: the feature set, where the call is ("entry": before the      *)
(* depth check, "loop": in the loop over its dependencies) and the         *)
(* dependencies the loop has yet to look at.  The depth argument of a      *)
(* call is its position in the stack, counted from 0.                      *)

Frame(name) == [name |-> name, pc |-> "entry", todo |-> <<>>]

Top == stack[Len(stack)]

Depth == Len(stack) - 1

Pop(s) == SubSeq(s, 1, Len(s) - 1)

ReplaceTop(s, f) == [s EXCEPT ![Len(s)] = f]

\* for fsetname, fset in sorted(all_ss_fsets.items()): _add_init(fset, ..., 0)
CallFromLoop ==
    /\ status = "running"
    /\ stack = <<>>
    /\ pending # <<>>
    /\ stack' = <<Frame(Head(pending))>>
    /\ pending' = Tail(pending)
    /\ UNCHANGED <<allsets, deps, init_order, status, errname>>
    /\ UNCHANGED dvars

\* The loop is over: generate_app_module goes on with init_order.
LoopDone ==
    /\ status = "running"
    /\ stack = <<>>
    /\ pending = <<>>
    /\ status' = "returned"
    /\ UNCHANGED <<allsets, deps, init_order, stack, pending, errname>>
    /\ UNCHANGED dvars

\* if depth > 10: raise RuntimeError(... involving feature set fset.name)
RaiseCycle ==
    /\ status = "running"
    /\ stack # <<>>
    /\ Top.pc = "entry"
    /\ DepthExceeded(Depth)
    /\ status' = "cycle_error"
    /\ errname' = Top.name
    /\ UNCHANGED <<allsets, deps, init_order, stack, pending>>
    /\ UNCHANGED dvars

\* if fset.name in init_order: return
ReturnAlreadyAdded ==
    /\ status = "running"
    /\ stack # <<>>
    /\ Top.pc = "entry"
    /\ ~DepthExceeded(Depth)
    /\ AlreadyAdded(Top.name, init_order)
    /\ stack' = Pop(stack)
    /\ UNCHANGED <<allsets, deps, init_order, pending, status, errname>>
    /\ UNCHANGED dvars

\* for depname in sorted(fset.python_app_subsystem_dependencies):
EnterDeps ==
    /\ status = "running"
    /\ stack # <<>>
    /\ Top.pc = "entry"
    /\ ~DepthExceeded(Depth)
    /\ ~AlreadyAdded(Top.name, init_order)
    /\ stack' = ReplaceTop(stack, [Top EXCEPT !.pc = "loop",
                                              !.todo = SortedDeps(Top.name, deps)])
    /\ UNCHANGED <<allsets, deps, init_order, pending, status, errname>>
    /\ UNCHANGED dvars

\* if depfset is None: continue
SkipAbsentDep ==
    /\ status = "running"
    /\ stack # <<>>
    /\ Top.pc = "loop"
    /\ Top.todo # <<>>
    /\ ~DepPresent(Head(Top.todo), allsets)
    /\ stack' = ReplaceTop(stack, [Top EXCEPT !.todo = Tail(Top.todo)])
    /\ UNCHANGED <<allsets, deps, init_order, pending, status, errname>>
    /\ UNCHANGED dvars

\* _add_init(depfset, allsets, init_order, depth + 1)
CallDep ==
    /\ status = "running"
    /\ stack # <<>>
    /\ Top.pc = "loop"
    /\ Top.todo # <<>>
    /\ DepPresent(Head(Top.todo), allsets)
    /\ stack' = Append(ReplaceTop(stack, [Top EXCEPT !.todo = Tail(Top.todo)]),
                       Frame(Head(Top.todo)))
    /\ UNCHANGED <<allsets, deps, init_order, pending, status, errname>>
    /\ UNCHANGED dvars

\* assert fset.name not in init_order; init_order.append(fset.name)
AssertAndAppend ==
    /\ status = "running"
    /\ stack # <<>>
    /\ Top.pc = "loop"
    /\ Top.todo = <<>>
    /\ IF Top.name \in Range(init_order)
       THEN /\ status' = "assert_error"
            /\ UNCHANGED <<init_order, stack>>
       ELSE /\ init_order' = AppendName(init_order, Top.name)
            /\ stack' = Pop(stack)
            /\ UNCHANGED status
    /\ UNCHANGED <<allsets, deps, pending, errname>>
    /\ UNCHANGED dvars

----------------------------------------------------------------------------
(* The dependency mappings the traversal is run on. *)

\* Every mapping over the names 1..NumNames: any subset of them has an app
\* subsystem, and each of those depends on any subset of the names (a
\* dependency on a name outside allsets is a dependency on an absent set).
SmallDeps(ks) ==
    { [n \in Names |-> IF n \in ks THEN d[n] ELSE {}] :
        d \in [ks -> SUBSET (1..NumNames)] }

\* The chain 1 -> 2 -> ... -> len (each set depends on the next name), or the
\* same chain the other way round; last is what the end of the chain depends on.
ChainDeps(len, up, last) ==
    [n \in Names |->
        IF n > len THEN {}
        ELSE IF up THEN (IF n < len THEN {n + 1} ELSE last)
        ELSE (IF n > 1 THEN {n - 1} ELSE last)]

InitMapping ==
    \/ /\ allsets \in SUBSET (1..NumNames)
       /\ deps \in SmallDeps(allsets)
    \/ \E len \in 1..ChainLen, up \in BOOLEAN :
         \E last \in {{}} \cup {{j} : j \in 1..len} :
           /\ allsets = 1..len
           /\ deps = ChainDeps(len, up, last)

\* init_order: list[str] = [], before the loop of generate_app_module.
Init ==
    /\ InitMapping
    /\ init_order = <<>>
    /\ stack = <<>>
    /\ pending = OuterOrder(allsets)
    /\ status = "running"
    /\ errname = 0
    /\ mode = "resolve"
    /\ fsets = <<>>
    /\ existing_data = <<>>
    /\ out = <<>>
    /\ first_out = <<>>
    /\ run = 1
    /\ step = 0
    /\ gstatus = "running"
    /\ call = NoCall

Next ==
    \/ CallFromLoop
    \/ LoopDone
    \/ RaiseCycle
    \/ ReturnAlreadyAdded
    \/ EnterDeps
    \/ SkipAbsentDep
    \/ CallDep
    \/ AssertAndAppend

Spec == Init /\ [][Next]_vars

\* The runs on mappings with so few keys that no chain without a cycle can
\* pass the depth bound.
ShallowInit == Init /\ Cardinality(allsets) <= MaxDepth + 1

ShallowSpec == ShallowInit /\ [][Next]_vars

\* The traversal is straight-line code of one thread: it keeps running.
FairSpec == Spec /\ WF_vars(Next)

----------------------------------------------------------------------------
(* The same traversal as a function: what the loop of generate_app_module  *)
(* and _add_init compute from a mapping.  A result is the init_order list  *)
(* and how the run ended.                                                  *)

RECURSIVE AddInitFn(_, _, _, _, _)
RECURSIVE VisitDepsFn(_, _, _, _, _)

\* _add_init(fset, allsets, init_order, depth), from the result r so far.
AddInitFn(name, sets, d, r, depth) ==
    IF DepthExceeded(depth)
    THEN [status |-> "cycle_error", order |-> r.order, errname |-> name]
    ELSE IF AlreadyAdded(name, r.order) THEN r
    ELSE LET after == VisitDepsFn(SortedDeps(name, d), sets, d, r, depth) IN
         IF after.status # "running" THEN after
         ELSE IF name \in Range(after.order)
         THEN [after EXCEPT !.status = "assert_error"]
         ELSE [after EXCEPT !.order = AppendName(@, name)]

\* The loop over the sorted dependencies of a call at the given depth.
VisitDepsFn(todo, sets, d, r, depth) ==
    IF todo = <<>> \/ r.status # "running" THEN r
    ELSE IF ~DepPresent(Head(todo), sets)
    THEN VisitDepsFn(Tail(todo), sets, d, r, depth)
    ELSE VisitDepsFn(Tail(todo), sets, d,
                     AddInitFn(Head(todo), sets, d, r, depth + 1), depth)

RECURSIVE LoopFn(_, _, _, _)

\* for fsetname, fset in sorted(all_ss_fsets.items()): _add_init(..., 0)
LoopFn(todo, sets, d, r) ==
    IF r.status # "running" THEN r
    ELSE IF todo = <<>> THEN [r EXCEPT !.status = "returned"]
    ELSE LoopFn(Tail(todo), sets, d, AddInitFn(Head(todo), sets, d, r, 0))

ResolveFn(sets, d) ==
    LoopFn(OuterOrder(sets), sets, d,
           [status |-> "running", order |-> <<>>, errname |-> 0])

----------------------------------------------------------------------------
(* Documents.  A document is a sequence of lines; a line is its text       *)
(* without the indentation, the feature set its text is formatted with     *)
(* (0: none) and the width of its indentation.                             *)

\* Feature sets a generation run may hold.
GenNames == 2

\* Hand-written lines before, between and after the sections.
MaxGap == 1

\* Lines an existing section holds.
MaxOld == 1

\* The names 'base' and 'scene_v1' (ranks in string order).
BaseName == 1

SceneV1Name == 2

Line(text, fs, indent) == [text |-> text, fs |-> fs, indent |-> indent]

Blank == Line("", 0, 0)

RECURSIVE Flatten(_)
Flatten(ss) == IF ss = <<>> THEN <<>> ELSE Head(ss) \o Flatten(Tail(ss))

\* textwrap.indent(text, prefix): every line that is not blank gets the prefix.
Indent(lines, width) ==
    [i \in 1..Len(lines) |->
        IF lines[i].text = "" THEN lines[i]
        ELSE [lines[i] EXCEPT !.indent = @ + width]]

\* info = f'# This section generated by {__name__}; do not edit.'
Info == Line("# This section generated by batools.appmodule; do not edit.", 0, 0)

\* The sections, in the order generate_app_module rewrites them.
Sections == 1..4

SectionIndent(sec) == CASE sec = 1 -> 4 [] sec = 2 -> 4 [] sec = 3 -> 8 [] OTHER -> 12

BeginText(sec) ==
    CASE sec = 1 -> "# __FEATURESET_APP_SUBSYSTEM_IMPORTS_BEGIN__"
      [] sec = 2 -> "# __FEATURESET_APP_SUBSYSTEM_PROPERTIES_BEGIN__"
      [] sec = 3 -> "# __FEATURESET_APP_SUBSYSTEM_CREATE_BEGIN__"
      [] OTHER   -> "# __DEFAULT_APP_MODE_SELECTION_BEGIN__"

EndText(sec) ==
    CASE sec = 1 -> "# __FEATURESET_APP_SUBSYSTEM_IMPORTS_END__"
      [] sec = 2 -> "# __FEATURESET_APP_SUBSYSTEM_PROPERTIES_END__"
      [] sec = 3 -> "# __FEATURESET_APP_SUBSYSTEM_CREATE_END__"
      [] OTHER   -> "# __DEFAULT_APP_MODE_SELECTION_END__"

\* f'{indent}# __..._BEGIN__\n'
BeginMarker(sec) == Line(BeginText(sec), 0, SectionIndent(sec))

\* f'{indent}# __..._END__\n'
EndMarker(sec) == Line(EndText(sec), 0, SectionIndent(sec))

\* The marker arguments of the replace_section call for a section.
CallMarkersMixedUp(sec) ==
    <<BeginMarker(sec), EndMarker(IF sec = 2 THEN 3 ELSE sec)>>

CallMarkers(sec) == <<BeginMarker(sec), EndMarker(sec)>>

\* keep_markers=True, in each of the four calls.
DropMarkers == FALSE

KeepMarkers == TRUE

----------------------------------------------------------------------------
(* replace_section of efrotools, after section 4.1 of the specification.   *)

\* The first index at or after from of a line equal to line, 0 if none.
FirstIndex(doc, line, from) ==
    LET hits == {i \in from..Len(doc) : doc[i] = line}
    IN  IF hits = {} THEN 0 ELSE SetMin(hits)

ReplaceSection(doc, begin, end, content, keep) ==
    LET b == FirstIndex(doc, begin, 1) IN
    IF b = 0 \/ FirstIndex(doc, end, 1) = 0
    THEN [err |-> "MarkerNotFoundError", doc |-> <<>>]
    ELSE LET e == FirstIndex(doc, end, b + 1) IN
         IF e = 0 \/ e = b + 1
         THEN [err |-> "MarkerOrderError", doc |-> <<>>]
         ELSE [err |-> "none",
               doc |-> SubSeq(doc, 1, IF keep THEN b ELSE b - 1)
                       \o content
                       \o SubSeq(doc, IF keep THEN e ELSE e + 1, Len(doc))]

----------------------------------------------------------------------------
(* The text generate_app_module makes for each section. *)

\* The feature sets of fs that have an app subsystem (all_ss_fsets).
SubsystemSets(fs) == {n \in DOMAIN fs : fs[n].has_python_app_subsystem}

\* Imports: one line for each feature set with an app subsystem.
ImportsContents(fs) ==
    LET names == SortedSeq(SubsystemSets(fs))
    IN  [i \in 1..Len(names) |-> Line("from {modname} import {classname}", names[i], 0)]

ImportsText(fs) ==
    LET contents == ImportsContents(fs)
    IN  Indent(IF contents # <<>> THEN <<Info, Blank>> \o contents \o <<Blank>>
               ELSE <<Info>>, 4)

\* Feature sets that are soft-required by one here but are not here.
MissingSoftNames(fs) ==
    UNION {fs[n].soft_requirements : n \in DOMAIN fs} \ DOMAIN fs

\* The property of one name of all_fset_names.
PropertyLines(fs, n) ==
    IF n \in MissingSoftNames(fs)
    THEN << Blank,
            Line("@cached_property", 0, 0),
            Line("def {fsetname}(self) -> Any | None:", n, 0),
            Line("Our {fsetname} subsystem (not available in this project).", n, 4),
            Blank,
            Line("return None", 0, 4) >>
    ELSE IF ~fs[n].has_python_app_subsystem THEN <<>>
    ELSE IF fs[n].allow_as_soft_requirement
    THEN << Blank,
            Line("@cached_property", 0, 0),
            Line("def {name}(self) -> {classname} | None:", n, 0),
            Line("Our {name} subsystem (if available).", n, 4),
            Line("# pylint: disable=cyclic-import", 0, 4),
            Blank,
            Line("try:", 0, 4),
            Line("from {modname} import {classname}", n, 8),
            Blank,
            Line("return {classname}()", n, 8),
            Line("except ImportError:", 0, 4),
            Line("return None", 0, 8),
            Line("except Exception:", 0, 4),
            Line("logging.exception('Error importing {modname}.')", n, 8),
            Line("return None", 0, 8) >>
    ELSE << Blank,
            Line("@cached_property", 0, 0),
            Line("def {name}(self) -> {classname}:", n, 0),
            Line("Our {name} subsystem (always available).", n, 4),
            Line("# pylint: disable=cyclic-import", 0, 4),
            Blank,
            Line("from {modname} import {classname}", n, 4),
            Blank,
            Line("return {classname}()", n, 4) >>

PropertiesText(fs) ==
    LET names == SortedSeq(MissingSoftNames(fs) \cup DOMAIN fs)
        contents == Flatten([i \in 1..Len(names) |-> PropertyLines(fs, names[i])])
    IN  Indent(<<Info>> \o contents \o <<Blank>>, 4)

\* The dependencies _add_init reads, for every name it may be asked about.
SubsystemDeps(fs) ==
    [n \in 1..(GenNames + 1) |->
        IF n \in DOMAIN fs THEN fs[n].python_app_subsystem_dependencies ELSE {}]

\* The outcome of the loop that fills init_order.
InitOrderOf(fs) == ResolveFn(SubsystemSets(fs), SubsystemDeps(fs))

CreateText(order) ==
    Indent(<<Info, Blank, Line("# Poke these attrs to create all our subsystems.", 0, 0)>>
           \o [i \in 1..Len(order) |-> Line("_ = self.{fsetname}", order[i], 0)]
           \o <<Blank>>, 8)

ModeSelectionContents(fs) ==
    << Line("# Hmm; need to think about how we auto-construct this; how", 0, 0),
       Line("# should we determine which app modes to check and in what", 0, 0),
       Line("# order?", 0, 0) >>
    \o (IF SceneV1Name \in DOMAIN fs
        THEN <<Line("import bascenev1", 0, 0), Blank>> ELSE <<>>)
    \o (IF BaseName \in DOMAIN fs
        THEN <<Line("import babase", 0, 0), Blank>> ELSE <<>>)
    \o (IF SceneV1Name \in DOMAIN fs
        THEN << Line("if bascenev1.SceneV1AppMode.can_handle_intent(intent):", 0, 0),
                Line("return bascenev1.SceneV1AppMode", 0, 4), Blank >>
        ELSE <<>>)
    \o (IF BaseName \in DOMAIN fs
        THEN << Line("if babase.EmptyAppMode.can_handle_intent(intent):", 0, 0),
                Line("return babase.EmptyAppMode", 0, 4), Blank >>
        ELSE <<>>)
    \o << Line("raise RuntimeError(f'No handler found for intent {type(intent)}.')", 0, 0) >>

ModeSelectionText(fs) ==
    Indent(<<Info, Blank>> \o ModeSelectionContents(fs) \o <<Blank>>, 12)

\* The text a run with feature sets fs puts into a section (the create
\* section's text, when the loop over init_order returns).
SectionText(sec, fs) ==
    CASE sec = 1 -> ImportsText(fs)
      [] sec = 2 -> PropertiesText(fs)
      [] sec = 3 -> CreateText(InitOrderOf(fs).order)
      [] OTHER   -> ModeSelectionText(fs)

----------------------------------------------------------------------------
(* generate_app_module, one replace_section call at a time, run on a       *)
(* document and then, as every project update does, on its own output.     *)

\* out = replace_section(out, begin, end, text, keep_markers=True)
RewriteStep(sec) ==
    LET r == ReplaceSection(out, CallMarkers(sec)[1], CallMarkers(sec)[2],
                            SectionText(sec, fsets), KeepMarkers)
    IN  IF r.err # "none"
        THEN /\ gstatus' = r.err
             /\ UNCHANGED <<out, step, first_out>>
        ELSE /\ out' = r.doc
             /\ step' = step + 1
             /\ IF sec = 4
                THEN /\ gstatus' = "returned"
                     /\ first_out' = IF run = 1 THEN r.doc ELSE first_out
                ELSE UNCHANGED <<gstatus, first_out>>

RewriteImports ==
    /\ mode = "generate" /\ gstatus = "running" /\ step = 0
    /\ RewriteStep(1)
    /\ UNCHANGED <<mode, fsets, existing_data, run, call>>
    /\ UNCHANGED rvars

RewriteProperties ==
    /\ mode = "generate" /\ gstatus = "running" /\ step = 1
    /\ RewriteStep(2)
    /\ UNCHANGED <<mode, fsets, existing_data, run, call>>
    /\ UNCHANGED rvars

\* The loop over sorted(all_ss_fsets.items()), then the create section.
RewriteCreate ==
    /\ mode = "generate" /\ gstatus = "running" /\ step = 2
    /\ IF InitOrderOf(fsets).status # "returned"
       THEN /\ gstatus' = InitOrderOf(fsets).status
            /\ UNCHANGED <<out, step, first_out>>
       ELSE RewriteStep(3)
    /\ UNCHANGED <<mode, fsets, existing_data, run, call>>
    /\ UNCHANGED rvars

RewriteModeSelection ==
    /\ mode = "generate" /\ gstatus = "running" /\ step = 3
    /\ RewriteStep(4)
    /\ UNCHANGED <<mode, fsets, existing_data, run, call>>
    /\ UNCHANGED rvars

\* The next project update: the same feature sets, the file the last run wrote.
Regenerate ==
    /\ mode = "generate" /\ gstatus = "returned" /\ run = 1
    /\ run' = 2
    /\ existing_data' = out
    /\ step' = 0
    /\ gstatus' = "running"
    /\ UNCHANGED <<mode, fsets, out, first_out, call>>
    /\ UNCHANGED rvars

\* replace_section(d, b, e, c, k), and once more on what it returned.
RewriteAlone ==
    /\ mode = "rewrite" /\ gstatus = "running" /\ step < 2
    /\ LET r == ReplaceSection(out, BeginMarker(call.sec), EndMarker(call.sec),
                               call.content, call.keep)
       IN  IF r.err # "none"
           THEN /\ gstatus' = r.err
                /\ UNCHANGED <<out, step, first_out>>
           ELSE /\ out' = r.doc
                /\ step' = step + 1
                /\ first_out' = IF step = 0 THEN r.doc ELSE first_out
                /\ gstatus' = IF step = 1 THEN "returned" ELSE gstatus
    /\ UNCHANGED <<mode, fsets, existing_data, run, call>>
    /\ UNCHANGED rvars

----------------------------------------------------------------------------
(* The documents and feature sets the runs start from. *)

HandLines(gap, n) == [j \in 1..n |-> Line("hand-written", gap, j)]

OldLines(sec, n) == [j \in 1..n |-> Line("old generated", sec, j)]

\* The sections in the given order, olds[sec] old lines in each, and gap
\* hand-written lines around each of them.
BuildDoc(gap, olds, order) ==
    Flatten([p \in 1..4 |->
                HandLines(p, gap) \o <<BeginMarker(order[p])>>
                \o OldLines(order[p], olds[order[p]]) \o <<EndMarker(order[p])>>])
    \o HandLines(5, gap)

SectionOrders == {<<1, 2, 3, 4>>, <<4, 3, 2, 1>>}

\* Documents with every marker once and each begin before its end: every
\* section holds n old lines, but for one of them, which holds m.
ValidDocs ==
    { BuildDoc(gap, [sec \in Sections |-> IF sec = odd THEN m ELSE n], order) :
        gap \in 0..MaxGap, n \in 0..MaxOld, m \in 0..MaxOld,
        odd \in Sections, order \in SectionOrders }

BaseDoc == BuildDoc(MaxGap, [sec \in Sections |-> MaxOld], <<1, 2, 3, 4>>)

Without(doc, line) == SelectSeq(doc, LAMBDA l : l # line)

SwapLines(doc, a, b) ==
    [i \in 1..Len(doc) |-> IF doc[i] = a THEN b ELSE IF doc[i] = b THEN a ELSE doc[i]]

\* Documents that lack a marker, or hold an end marker before its begin.
BrokenDocs ==
    {Without(BaseDoc, BeginMarker(sec)) : sec \in Sections}
    \cup {Without(BaseDoc, EndMarker(sec)) : sec \in Sections}
    \cup {SwapLines(BaseDoc, BeginMarker(sec), EndMarker(sec)) : sec \in Sections}

FeatureSet(ss, soft, softreqs, d) ==
    [has_python_app_subsystem |-> ss, allow_as_soft_requirement |-> soft,
     soft_requirements |-> softreqs, python_app_subsystem_dependencies |-> d]

Kinds == {"plain", "subsystem", "soft_subsystem"}

\* What a feature set depends on under each shape of the dependencies.
ShapeDeps(shape, n) ==
    CASE shape = "none" -> {}
      [] shape = "up"   -> {n + 1}
      [] shape = "down" -> {n - 1} \cap (1..GenNames)
      [] OTHER          -> {(n % GenNames) + 1}

\* Any subset of the names 1..GenNames, each with or without an app
\* subsystem; the dependencies in one of four shapes; each set either with
\* no soft requirement or soft-requiring the next name.
FeatureSetMaps ==
    { [n \in present |->
          FeatureSet(kind[n] # "plain", kind[n] = "soft_subsystem",
                     IF softreq THEN {n + 1} ELSE {}, ShapeDeps(shape, n))] :
        present \in SUBSET (1..GenNames),
        kind \in [1..GenNames -> Kinds],
        shape \in {"none", "up", "down", "ring"},
        softreq \in BOOLEAN }

\* What a bare rewrite is given as new content.
Contents(sec) ==
    { <<>>,
      <<Line("new", 0, 0)>>,
      <<Line("new", 0, 0), Line("newer", 0, 4)>>,
      <<Line("new", 0, 0), EndMarker(sec)>>,
      <<BeginMarker(sec), Line("new", 0, 0)>> }

ResolverIdle ==
    /\ allsets = {}
    /\ deps = <<>>
    /\ init_order = <<>>
    /\ stack = <<>>
    /\ pending = <<>>
    /\ status = "returned"
    /\ errname = 0

DocInit ==
    /\ ResolverIdle
    /\ existing_data \in ValidDocs \cup BrokenDocs
    /\ out = existing_data
    /\ first_out = <<>>
    /\ run = 1
    /\ step = 0
    /\ gstatus = "running"
    /\ \/ /\ mode = "generate"
          /\ fsets \in FeatureSetMaps
          /\ call = NoCall
       \/ /\ mode = "rewrite"
          /\ existing_data \in ValidDocs
          /\ fsets = <<>>
          /\ \E sec \in Sections, keep \in BOOLEAN :
               \E content \in Contents(sec) :
                 call = [sec |-> sec, content |-> content, keep |-> keep]

DocNext ==
    \/ RewriteImports
    \/ RewriteProperties
    \/ RewriteCreate
    \/ RewriteModeSelection
    \/ Regenerate
    \/ RewriteAlone

DocSpec == DocInit /\ [][DocNext]_vars

----------------------------------------------------------------------------
(* The dependency relation the claims speak of: the dependencies of a      *)
(* feature set that are keys of the working set.                           *)

PresentDeps(n) == deps[n] \cap allsets

RECURSIVE Closure(_)
Closure(S) ==
    LET T == S \cup UNION {PresentDeps(x) : x \in S}
    IN  IF T = S THEN S ELSE Closure(T)

\* Everything n depends on, directly or through other present sets.
Reaches(n) == Closure(PresentDeps(n))

InCycle(n) == n \in Reaches(n)

HasCycle == \E n \in allsets : InCycle(n)

Independent(x, y) == x \notin Reaches(y) /\ y \notin Reaches(x)

Pos(n) == CHOOSE i \in 1..Len(init_order) : init_order[i] = n

NoDuplicates(s) == \A i, j \in 1..Len(s) : s[i] = s[j] => i = j

\* Every present dependency of every listed name is listed before it.
DepsFirst(s) ==
    \A i \in 1..Len(s) : \A dn \in PresentDeps(s[i]) :
        \E j \in 1..(i - 1) : s[j] = dn

StripAbsent(d, sets) == [n \in DOMAIN d |-> d[n] \cap sets]

Outcome == [status |-> status, order |-> init_order, errname |-> errname]

----------------------------------------------------------------------------
(* The claims. *)

\* C1: for every mapping without a cycle the traversal ends without an error
\* and returns a permutation of the keys in which every present dependency
\* comes before its dependent, however long the dependency chains are.
C1_TopologicalValidity ==
    ~HasCycle =>
        /\ status \notin {"cycle_error", "assert_error"}
        /\ status = "returned" =>
              /\ Range(init_order) = allsets
              /\ NoDuplicates(init_order)
              /\ DepsFirst(init_order)

\* C2: for every mapping with a cycle (a two-cycle and a self-dependency
\* included) the traversal ends with the dependency-cycle error and never
\* returns an ordering.
C2_CycleDetection ==
    (HasCycle /\ status # "running") => status = "cycle_error"

C2_Witness ==
    /\ HasCycle
    /\ status = "cycle_error"
    /\ init_order # <<>>
    /\ \E n \in allsets : n \in deps[n]

\* C3: whenever the dependency-cycle error is raised, the feature set it
\* names is a member of a dependency cycle (it reaches itself through one
\* or more present dependencies).
C3_NamedSetIsOnCycle ==
    status = "cycle_error" => InCycle(errname)

\* C4 as stated: of two components of the returned order neither of which
\* depends on the other, the one with the smaller name comes first.
C4_TieBreakByName ==
    status = "returned" =>
        \A x, y \in allsets :
            (x < y /\ Independent(x, y)) => Pos(x) < Pos(y)

\* C4 as amended: of two components of the returned order neither of which
\* depends on the other, the one with the smaller name comes first, unless
\* the larger one is a dependency (direct or transitive) of a component
\* whose name is smaller than both.
C4_TieBreakUnlessPulledEarlier ==
    status = "returned" =>
        \A x, y \in allsets :
            (x < y /\ Independent(x, y)) =>
                \/ Pos(x) < Pos(y)
                \/ \E k \in allsets : k < x /\ y \in Reaches(k)

C4_Witness ==
    /\ status = "returned"
    /\ allsets = {1, 2, 3}
    /\ deps[1] = {} /\ deps[2] = {1} /\ deps[3] = {1}
    /\ init_order = <<1, 2, 3>>

\* C5: a dependency on a name that is not a key never appears in the
\* output, and the run ends exactly as the run on the mapping with every
\* non-key dependency removed ends: same status, same order, same error.
C5_AbsentDepsIgnored ==
    /\ Range(init_order) \subseteq allsets
    /\ status # "running" => Outcome = ResolveFn(allsets, StripAbsent(deps, allsets))

C5_Witness ==
    /\ status = "returned"
    /\ \E n \in allsets : deps[n] \ allsets # {} /\ PresentDeps(n) # {}

\* C8: the assertion of _add_init never fails, in cyclic and acyclic
\* mappings alike.
C8_AssertionHolds == status # "assert_error"

C8_Witness ==
    /\ HasCycle
    /\ status = "running"
    /\ stack # <<>>
    /\ Top.pc = "loop"
    /\ Top.todo = <<>>
    /\ PresentDeps(Top.name) # {}
    /\ init_order # <<>>

\* C9: every run of the traversal ends (it returns or raises), and no call
\* of _add_init is ever deeper than depth 11.
C9_Termination ==
    /\ <>(status # "running")
    /\ [](Depth <= MaxDepth + 1)

C9_Witness ==
    /\ Depth = MaxDepth + 1
    /\ status = "cycle_error"

\* C10: in every state of the traversal, the state at which the
\* dependency-cycle error is raised included, init_order holds no name
\* twice, holds only keys of the working set, and holds every present
\* dependency of each of its names at a smaller index.
C10_InitOrderInvariant ==
    /\ NoDuplicates(init_order)
    /\ Range(init_order) \subseteq allsets
    /\ DepsFirst(init_order)

C10_Witness ==
    /\ status = "cycle_error"
    /\ Len(init_order) >= 2
    /\ \E i \in 1..Len(init_order) : PresentDeps(init_order[i]) # {}

----------------------------------------------------------------------------
(* What the claims about the sections speak of. *)

BeginPos(doc, sec) == FirstIndex(doc, BeginMarker(sec), 1)

EndPos(doc, sec) ==
    IF BeginPos(doc, sec) = 0 THEN 0
    ELSE FirstIndex(doc, EndMarker(sec), BeginPos(doc, sec) + 1)

\* The indices of the lines strictly between the markers of some section.
InsideSections(doc) ==
    UNION {(BeginPos(doc, sec) + 1)..(EndPos(doc, sec) - 1) : sec \in Sections}

\* The document without the lines strictly between marker pairs.
Skeleton(doc) ==
    LET inside == InsideSections(doc)
    IN  Flatten([i \in 1..Len(doc) |->
                    IF i \in inside THEN <<>> ELSE <<doc[i]>>])

\* The lines strictly between the markers of a section.
SectionContent(doc, sec) ==
    IF BeginPos(doc, sec) = 0 \/ EndPos(doc, sec) = 0 THEN <<>>
    ELSE SubSeq(doc, BeginPos(doc, sec) + 1, EndPos(doc, sec) - 1)

HasMarker(content) ==
    \E i \in 1..Len(content), sec \in Sections :
        content[i] \in {BeginMarker(sec), EndMarker(sec)}

\* C6: each of the four rewrites of generate_app_module changes only the
\* lines strictly between its own markers: after every call the lines
\* outside the four marker pairs (marker lines included) are those of the
\* document the run was given, each section already rewritten holds exactly
\* the text made for it, and each section not yet rewritten holds what it
\* held in the document the run was given.
C6_NonInterference ==
    mode = "generate" =>
        /\ Skeleton(out) = Skeleton(existing_data)
        /\ \A sec \in Sections :
              SectionContent(out, sec) =
                  IF sec <= step THEN SectionText(sec, fsets)
                  ELSE SectionContent(existing_data, sec)

C6_Witness ==
    /\ mode = "generate"
    /\ run = 1
    /\ gstatus = "returned"
    /\ out # existing_data
    /\ Len(Skeleton(out)) > 8
    /\ BeginPos(out, 4) < BeginPos(out, 1)

\* C7 as stated: a second rewrite with the same markers, content and flag
\* returns what the first returned, whatever the content and the flag; and
\* a second run of generate_app_module returns what the first returned.
C7_Idempotent ==
    /\ (mode = "rewrite" /\ step >= 1 /\ gstatus # "running") =>
           (gstatus = "returned" /\ out = first_out)
    /\ (mode = "generate" /\ run = 2 /\ gstatus # "running") =>
           (gstatus = "returned" /\ out = first_out)

\* C7 as amended: a second rewrite with the same markers and content
\* returns what the first returned when the markers are kept and the
\* content is not empty and holds no marker line; and a second run of
\* generate_app_module, on the output of the first with the same feature
\* sets, returns that output unchanged.
C7_IdempotentKeepingMarkers ==
    /\ (/\ mode = "rewrite" /\ step >= 1 /\ gstatus # "running"
        /\ call.keep /\ call.content # <<>> /\ ~HasMarker(call.content)) =>
           (gstatus = "returned" /\ out = first_out)
    /\ (mode = "generate" /\ run = 2 /\ gstatus # "running") =>
           (gstatus = "returned" /\ out = first_out)

C7_Witness ==
    /\ mode = "rewrite"
    /\ step = 2
    /\ gstatus = "returned"
    /\ call.keep
    /\ Len(call.content) = 2
    /\ ~HasMarker(call.content)
    /\ first_out # existing_data

====
